---- MODULE Spec2Model ----
(***************************************************************************)
(* Model of the `eigs_trans` command of cooltools                          *)
(* (src/cooltools/cli/eigs_trans.py).  One behaviour is one invocation of  *)
(* the command: the command-line arguments are fixed in Init, the files    *)
(* the command reads are drawn when it reads them, and every statement     *)
(* group of the handler is one action.                                     *)
(***************************************************************************)
EXTENDS Integers, Sequences, FiniteSets, TLC

(* ---------------------------------------------------------------------- *)
(* Bounds of the model                                                     *)
(* ---------------------------------------------------------------------- *)
Chr1Bins == 2
MaxTrackRows == 2
MaxRegions == 2

(* ---------------------------------------------------------------------- *)
(* Program constants                                                       *)
(* ---------------------------------------------------------------------- *)
DefaultNEigs == 3
DefaultColumnIndex == 3

(* Python's None, a str and an int as tagged values, so that a value that  *)
(* may be either (the track column, an optional argument) is comparable.   *)
None == [kind |-> "None"]
PyStr(s) == [kind |-> "str", val |-> s]
PyInt(n) == [kind |-> "int", val |-> n]
isinstance_int(c) == c.kind = "int"

NaN == "NaN"

Range(s) == {s[i] : i \in 1..Len(s)}

(* ---------------------------------------------------------------------- *)
(* The cooler: chromosomes, bin table                                      *)
(* ---------------------------------------------------------------------- *)
BinSize == 10
NBins == Chr1Bins + 1

chromsizes == [c \in {"chr1", "chr2"} |-> IF c = "chr1" THEN Chr1Bins * BinSize ELSE BinSize]

ChromOrder(c) == IF c = "chr1" THEN 1 ELSE 2

BinKey(i) ==
    IF i <= Chr1Bins
    THEN [chrom |-> "chr1", start |-> (i - 1) * BinSize, end |-> i * BinSize]
    ELSE [chrom |-> "chr2", start |-> 0, end |-> BinSize]

(* clr.bins()[:] : every column of the bin table of a balanced cooler *)
clr_bins ==
    [columns |-> <<"chrom", "start", "end", "weight">>,
     rows    |-> [i \in 1..NBins |-> BinKey(i)]]

(* clr.bins()[["chrom", "start", "end"]][:] *)
clr_bins_coords ==
    [columns |-> <<"chrom", "start", "end">>,
     rows    |-> clr_bins.rows]

(* make_cooler_view(clr): one region per chromosome, full length *)
make_cooler_view ==
    << [chrom |-> "chr1", start |-> 0, end |-> chromsizes["chr1"]],
       [chrom |-> "chr2", start |-> 0, end |-> chromsizes["chr2"]] >>

(* ---------------------------------------------------------------------- *)
(* Inputs                                                                  *)
(* ---------------------------------------------------------------------- *)
(* --reference-track PATH[::COL]; COL is an index or a name *)
Cols == {PyInt(0 - 5), PyInt(0 - 1), PyInt(DefaultColumnIndex + 1), PyStr("gc"), PyStr("zz")}

(* what sniff_for_header finds: no header (None), or the header's names *)
NoHeader == <<>>
Headers == {NoHeader, <<"chrom", "start", "end", "gc">>}

(* rows of a track file: the coordinates of the first bin, of the last bin *)
(* and of one interval that is no bin, each with a value                   *)
OffBinKey == [chrom |-> "chr1", start |-> BinSize \div 2, end |-> BinSize + (BinSize \div 2)]
TrackKeys == {BinKey(1), BinKey(NBins), OffBinKey}
TrackValues == {"0.0", "1.0"}
TrackRow == [key : TrackKeys, value : TrackValues]
TrackFiles == UNION {[1..n -> TrackRow] : n \in 0..MaxTrackRows}

(* rows of a region file *)
Regions ==
    { [chrom |-> "chr1", start |-> 0, end |-> BinSize],
      [chrom |-> "chr1", start |-> BinSize \div 2, end |-> BinSize + (BinSize \div 2)],
      [chrom |-> "chr1", start |-> BinSize, end |-> 2 * BinSize] }
ViewFiles ==
    { f \in UNION {[1..n -> Regions] : n \in 1..MaxRegions} :
        \A i, j \in 1..Len(f) : i # j => f[i] # f[j] }

NEigsArgs == {0, 1, DefaultNEigs}

VARIABLES
    pc, err, calls,
    reference_track, view, n_eigs, bigwig, view_file,
    names, col, track_name, kwargs, track_df, track,
    cooler_view_df, view_df,
    call, n_valid, files, bw_value_field

vars == << pc, err, calls, reference_track, view, n_eigs, bigwig, view_file,
           names, col, track_name, kwargs, track_df, track,
           cooler_view_df, view_df, call, n_valid, files, bw_value_field >>

NoCall == [called |-> FALSE]
NoFiles == [f \in {"lam", "vecs", "bw"} |-> "absent"]

Init ==
    /\ pc = "open"
    /\ err = "none"
    /\ calls = <<>>
    /\ reference_track \in {None} \cup {[kind |-> "track", col |-> c] : c \in Cols}
    /\ view \in {None, PyStr("view.bed")}
    /\ view_file \in IF view = None THEN {<<>>} ELSE ViewFiles
    /\ n_eigs \in NEigsArgs
    /\ bigwig \in BOOLEAN
    /\ names = NoHeader
    /\ col = None
    /\ track_name = None
    /\ kwargs = None
    /\ track_df = <<>>
    /\ track = [columns |-> <<>>, rows |-> <<>>]
    /\ cooler_view_df = <<>>
    /\ view_df = <<>>
    /\ call = NoCall
    /\ n_valid = 0
    /\ files = NoFiles
    /\ bw_value_field = None

(* ---------------------------------------------------------------------- *)
(* Reference-track column resolution (lines 96-131)                        *)
(* ---------------------------------------------------------------------- *)
(* names[col] of a Python list: indices -len .. len-1 select an entry *)
PyIndexOk(s, i) == (0 - Len(s)) <= i /\ i < Len(s)
PyIndex(s, i) == IF i >= 0 THEN s[i + 1] ELSE s[Len(s) + i + 1]

BadParameter(c) == [ok |-> FALSE, col |-> c, track_name |-> None, kwargs |-> None]

HeaderKwargs(name) ==
    [header |-> PyStr("infer"),
     usecols |-> <<PyStr("chrom"), PyStr("start"), PyStr("end"), name>>]

(* a column name is taken without looking it up in the header *)
ResolveColumn_NoNameCheck(hdr, c) ==
    IF hdr = NoHeader
    THEN IF ~isinstance_int(c)
         THEN BadParameter(c)
         ELSE [ok |-> TRUE, col |-> c, track_name |-> PyStr("ref"),
               kwargs |-> [header |-> None,
                           usecols |-> <<PyInt(0), PyInt(1), PyInt(2), c>>]]
    ELSE IF isinstance_int(c)
         THEN IF PyIndexOk(hdr, c.val)
              THEN [ok |-> TRUE, col |-> PyStr(PyIndex(hdr, c.val)),
                    track_name |-> PyStr(PyIndex(hdr, c.val)),
                    kwargs |-> HeaderKwargs(PyStr(PyIndex(hdr, c.val)))]
              ELSE BadParameter(c)
         ELSE [ok |-> TRUE, col |-> c, track_name |-> c, kwargs |-> HeaderKwargs(c)]

ResolveColumn(hdr, c) ==
    IF hdr = NoHeader
    THEN IF ~isinstance_int(c)
         THEN BadParameter(c)
         ELSE [ok |-> TRUE, col |-> c, track_name |-> PyStr("ref"),
               kwargs |-> [header |-> None,
                           usecols |-> <<PyInt(0), PyInt(1), PyInt(2), c>>]]
    ELSE IF isinstance_int(c)
         THEN IF PyIndexOk(hdr, c.val)
              THEN [ok |-> TRUE, col |-> PyStr(PyIndex(hdr, c.val)),
                    track_name |-> PyStr(PyIndex(hdr, c.val)),
                    kwargs |-> HeaderKwargs(PyStr(PyIndex(hdr, c.val)))]
              ELSE BadParameter(c)
         ELSE IF c.val \notin Range(hdr)
              THEN BadParameter(c)
              ELSE [ok |-> TRUE, col |-> c, track_name |-> c, kwargs |-> HeaderKwargs(c)]

(* ---------------------------------------------------------------------- *)
(* Track alignment (lines 146-164)                                         *)
(* ---------------------------------------------------------------------- *)
RECURSIVE Flatten(_)
Flatten(ss) == IF ss = <<>> THEN <<>> ELSE Head(ss) \o Flatten(Tail(ss))

SameKey(b, r) == b.chrom = r.key.chrom /\ b.start = r.key.start /\ b.end = r.key.end

MergedRows(b, df) ==
    LET m == SelectSeq(df, LAMBDA r : SameKey(b, r))
    IN  IF m = <<>>
        THEN << [chrom |-> b.chrom, start |-> b.start, end |-> b.end, value |-> NaN] >>
        ELSE [k \in 1..Len(m) |->
                [chrom |-> b.chrom, start |-> b.start, end |-> b.end, value |-> m[k].value]]

(* pd.merge(left=bins, right=track_df, how="left", on=[chrom, start, end]) *)
pd_merge(bins, df, name) ==
    [columns |-> Append(bins.columns, name.val),
     rows    |-> Flatten([i \in 1..Len(bins.rows) |-> MergedRows(bins.rows[i], df)])]

(* lines 156-160: the ValueError is constructed and dropped, never raised *)
MergeCheckRaises(t, bins) == FALSE

(* ---------------------------------------------------------------------- *)
(* View resolution (lines 166-171)                                         *)
(* ---------------------------------------------------------------------- *)
Overlapping(f) ==
    \E i, j \in 1..Len(f) :
        /\ i < j
        /\ f[i].chrom = f[j].chrom
        /\ f[i].start < f[j].end
        /\ f[j].start < f[i].end

Unsorted(f) ==
    \E i \in 1..(Len(f) - 1) :
        \/ ChromOrder(f[i].chrom) > ChromOrder(f[i + 1].chrom)
        \/ /\ f[i].chrom = f[i + 1].chrom
           /\ f[i].start > f[i + 1].start

OutOfBounds(f) ==
    \E i \in 1..Len(f) : f[i].start < 0 \/ f[i].end > chromsizes[f[i].chrom]

read_viewframe(f, check_sorting) ==
    IF OutOfBounds(f) \/ Overlapping(f) \/ (check_sorting /\ Unsorted(f))
    THEN [ok |-> FALSE, df |-> <<>>]
    ELSE [ok |-> TRUE, df |-> f]

(* the region file is read with check_sorting=False *)
ResolveView_NoSortCheck(v, f, full) ==
    IF v = None
    THEN [ok |-> TRUE, df |-> full]
    ELSE read_viewframe(f, FALSE)

ResolveView(v, f, full) ==
    IF v = None
    THEN [ok |-> TRUE, df |-> full]
    ELSE read_viewframe(f, TRUE)

(* ---------------------------------------------------------------------- *)
(* Decomposition call (lines 176-184)                                      *)
(* ---------------------------------------------------------------------- *)
clr_weight_name == "weight"

Frame(rows) == [kind |-> "frame", rows |-> rows]

(* the resolved view is handed over as the partition *)
EigsTransArgs_ViewPartition(t, n, name, vdf) ==
    [called            |-> TRUE,
     bins              |-> t,
     n_eigs            |-> n,
     clr_weight_name   |-> clr_weight_name,
     partition         |-> Frame(vdf),
     phasing_track_col |-> name,
     sort_metric       |-> None]

(* the option's default is handed over instead of --n-eigs *)
EigsTransArgs_DefaultNEigs(t, n, name, vdf) ==
    [called            |-> TRUE,
     bins              |-> t,
     n_eigs            |-> DefaultNEigs,
     clr_weight_name   |-> clr_weight_name,
     partition         |-> None,
     phasing_track_col |-> name,
     sort_metric       |-> None]

EigsTransArgs(t, n, name, vdf) ==
    [called            |-> TRUE,
     bins              |-> t,
     n_eigs            |-> n,
     clr_weight_name   |-> clr_weight_name,
     partition         |-> None,
     phasing_track_col |-> name,
     sort_metric       |-> None]

(* eigdecomp.eigs_trans: n_eigs must be positive and at most the number of *)
(* valid bins                                                              *)
eigdecomp_eigs_trans(args, nv) ==
    IF args.n_eigs < 1 \/ args.n_eigs > nv THEN "ConfigError" ELSE "ok"

(* ---------------------------------------------------------------------- *)
(* Output (lines 186-197)                                                  *)
(* ---------------------------------------------------------------------- *)
(* the eigenvector table is written first *)
OutputOrder_VecsFirst == <<"vecs", "lam">>
OutputOrder == <<"lam", "vecs">>
(* the bigWig export is not guarded by the flag *)
AfterTables_Always(bw) == "write_bw"
AfterTables(bw) == IF bw THEN "write_bw" ELSE "done"
WriteOutcomes == {"complete", "partial", "absent"}

(* ---------------------------------------------------------------------- *)
(* Actions                                                                 *)
(* ---------------------------------------------------------------------- *)
Fail(e) == pc' = "error" /\ err' = e

(* lines 88-92 *)
Open ==
    /\ pc = "open"
    /\ cooler_view_df' = make_cooler_view
    /\ pc' = IF reference_track # None THEN "resolve_column" ELSE "bin_table"
    /\ calls' = Append(calls, "make_cooler_view")
    /\ UNCHANGED << err, reference_track, view, n_eigs, bigwig, view_file, names, col,
                    track_name, kwargs, track_df, track, view_df, call, n_valid,
                    files, bw_value_field >>

(* lines 96-131 *)
SniffAndResolveColumn ==
    /\ pc = "resolve_column"
    /\ \E hdr \in Headers :
         LET r == ResolveColumn(hdr, reference_track.col)
         IN  /\ names' = hdr
             /\ col' = r.col
             /\ track_name' = r.track_name
             /\ kwargs' = r.kwargs
             /\ IF r.ok THEN pc' = "read_track" /\ err' = err ELSE Fail("BadParameter")
    /\ calls' = Append(calls, "sniff_for_header")
    /\ UNCHANGED << reference_track, view, n_eigs, bigwig, view_file, track_df, track,
                    cooler_view_df, view_df, call, n_valid, files, bw_value_field >>

(* lines 133-160 *)
ReadAndMergeTrack ==
    /\ pc = "read_track"
    /\ \E df \in TrackFiles :
         LET t == pd_merge(clr_bins, df, track_name)
         IN  /\ track_df' = df
             /\ track' = t
             /\ IF MergeCheckRaises(t, clr_bins)
                THEN Fail("ValueError")
                ELSE pc' = "view" /\ err' = err
    /\ calls' = calls \o <<"read_table", "merge">>
    /\ UNCHANGED << reference_track, view, n_eigs, bigwig, view_file, names, col,
                    track_name, kwargs, cooler_view_df, view_df, call, n_valid, files,
                    bw_value_field >>

(* line 133: pd.read_table cannot parse the file *)
ReadTrackFails ==
    /\ pc = "read_track"
    /\ Fail("ParserError")
    /\ calls' = Append(calls, "read_table")
    /\ UNCHANGED << reference_track, view, n_eigs, bigwig, view_file, names, col,
                    track_name, kwargs, track_df, track, cooler_view_df, view_df,
                    call, n_valid, files, bw_value_field >>

(* the else-branch names a track column although there is none *)
NoTrackTable_Ref == [track |-> clr_bins_coords, track_name |-> PyStr("ref")]
NoTrackTable == [track |-> clr_bins_coords, track_name |-> None]

(* lines 161-164 *)
UseBinTable ==
    /\ pc = "bin_table"
    /\ track' = NoTrackTable.track
    /\ track_name' = NoTrackTable.track_name
    /\ pc' = "view"
    /\ UNCHANGED << err, calls, reference_track, view, n_eigs, bigwig, view_file, names,
                    col, kwargs, track_df, cooler_view_df, view_df, call, n_valid,
                    files, bw_value_field >>

(* lines 166-171 *)
DefineView ==
    /\ pc = "view"
    /\ LET r == ResolveView(view, view_file, cooler_view_df)
       IN  /\ view_df' = r.df
           /\ IF r.ok THEN pc' = "decompose" /\ err' = err ELSE Fail("ViewError")
    /\ calls' = IF view = None THEN calls ELSE Append(calls, "read_viewframe")
    /\ UNCHANGED << reference_track, view, n_eigs, bigwig, view_file, names, col,
                    track_name, kwargs, track_df, track, cooler_view_df, call, n_valid,
                    files, bw_value_field >>

(* lines 176-184 *)
Decompose ==
    /\ pc = "decompose"
    /\ \E bad \in SUBSET (1..NBins) :
         LET args == EigsTransArgs(track, n_eigs, track_name, view_df)
             nv   == NBins - Cardinality(bad)
             res  == eigdecomp_eigs_trans(args, nv)
         IN  /\ call' = args
             /\ n_valid' = nv
             /\ IF res = "ok" THEN pc' = "write_1" /\ err' = err ELSE Fail(res)
    /\ calls' = Append(calls, "eigs_trans")
    /\ UNCHANGED << reference_track, view, n_eigs, bigwig, view_file, names, col,
                    track_name, kwargs, track_df, track, cooler_view_df, view_df,
                    files, bw_value_field >>

WriteTable(k, next) ==
    /\ \E o \in WriteOutcomes :
         /\ files' = [files EXCEPT ![OutputOrder[k]] = o]
         /\ IF o = "complete" THEN pc' = next /\ err' = err ELSE Fail("OSError")
    /\ calls' = Append(calls, "to_csv_" \o OutputOrder[k])
    /\ UNCHANGED << reference_track, view, n_eigs, bigwig, view_file, names, col,
                    track_name, kwargs, track_df, track, cooler_view_df, view_df,
                    call, n_valid, bw_value_field >>

(* line 187 *)
WriteFirstTable ==
    /\ pc = "write_1"
    /\ WriteTable(1, "write_2")

(* lines 188-191 *)
WriteSecondTable ==
    /\ pc = "write_2"
    /\ WriteTable(2, AfterTables(bigwig))

(* lines 192-197 *)
WriteBigwig ==
    /\ pc = "write_bw"
    /\ \E o \in WriteOutcomes :
         /\ files' = [files EXCEPT !["bw"] = o]
         /\ IF o = "complete" THEN pc' = "done" /\ err' = err ELSE Fail("OSError")
    /\ bw_value_field' = PyStr("E1")
    /\ calls' = Append(calls, "to_bigwig")
    /\ UNCHANGED << reference_track, view, n_eigs, bigwig, view_file, names, col,
                    track_name, kwargs, track_df, track, cooler_view_df, view_df,
                    call, n_valid >>

Next ==
    \/ Open
    \/ SniffAndResolveColumn
    \/ ReadAndMergeTrack
    \/ ReadTrackFails
    \/ UseBinTable
    \/ DefineView
    \/ Decompose
    \/ WriteFirstTable
    \/ WriteSecondTable
    \/ WriteBigwig

Spec == Init /\ [][Next]_vars

(* ---------------------------------------------------------------------- *)
(* Properties                                                              *)
(* ---------------------------------------------------------------------- *)
Called(f) == f \in Range(calls)
NoOutput == files = NoFiles
Written(f) == files[f] # "absent"
Finished == pc \in {"done", "error"}
HasTrack == reference_track # None

(* C1: when the left join of the bin table with the track rows has more    *)
(* rows than the bin table, the invocation fails: eigs_trans is never      *)
(* called and no output file is written.                                   *)
C1_MergeGrowthFails ==
    (Called("merge") /\ Len(track.rows) > Len(clr_bins.rows))
        => (pc = "error" /\ call = NoCall /\ NoOutput)

(* C2: with a reference track the decomposition is requested with the      *)
(* correlation ranking metric; the metric is none only without a track.    *)
C2_SortMetricFollowsTrack ==
    call.called =>
        call.sort_metric = (IF HasTrack THEN PyStr("correlation") ELSE None)

(* C3 as stated: the partition handed to the decomposition is the view     *)
(* resolved from the region file.                                          *)
C3_PartitionIsView ==
    call.called => call.partition = Frame(view_df)

(* C3 amended: whatever view was resolved, the decomposition is called     *)
(* with no partition; the view is only validated.                          *)
C3_PartitionIsNone ==
    call.called => (call.partition = None /\ call.bins = track)

C3_Witness ==
    /\ call.called
    /\ view # None
    /\ view_df = view_file
    /\ view_df # cooler_view_df
    /\ call.partition = None

(* C4 as stated: a finished invocation has written both output tables or   *)
(* neither, also when a write step failed.                                 *)
C4_BothOrNeither ==
    Finished => (Written("lam") <=> Written("vecs"))

(* C4 amended: an invocation that fails before the output step has written *)
(* nothing and a successful one has written both tables; the eigenvector   *)
(* table is never there without a completely written eigenvalue table,     *)
(* while a failing write step can leave the eigenvalue table alone.        *)
C4_TablesInOrder ==
    /\ Written("vecs") => files["lam"] = "complete"
    /\ pc = "done" => (files["lam"] = "complete" /\ files["vecs"] = "complete")
    /\ (pc = "error" /\ err # "OSError") => NoOutput

C4_Witness ==
    /\ pc = "error"
    /\ err = "OSError"
    /\ files["lam"] = "complete"
    /\ files["vecs"] = "absent"

(* C5: a region file with overlapping or unsorted regions makes the        *)
(* invocation fail in view resolution; eigs_trans is never called and no   *)
(* output file is written.                                                 *)
ViewInvalid == view # None /\ (Overlapping(view_file) \/ Unsorted(view_file))

C5_InvalidViewFailsFirst ==
    ViewInvalid =>
        /\ call = NoCall
        /\ ~Called("eigs_trans")
        /\ NoOutput
        /\ pc # "done"
        /\ Called("read_viewframe") => (pc = "error" /\ err = "ViewError")

C5_Witness ==
    /\ view # None
    /\ Unsorted(view_file)
    /\ ~Overlapping(view_file)
    /\ Called("read_viewframe")
    /\ pc = "error"
    /\ err = "ViewError"

(* C6: an invalid track column (a name without a header, an index outside  *)
(* the header, a name not in the header) ends in a parameter error before  *)
(* the track is read, before the decomposition and without output.         *)
BadColumn(hdr, c) ==
    \/ hdr = NoHeader /\ c.kind = "str"
    \/ hdr # NoHeader /\ c.kind = "int" /\ (c.val >= Len(hdr) \/ c.val + Len(hdr) < 0)
    \/ hdr # NoHeader /\ c.kind = "str" /\ \A i \in 1..Len(hdr) : hdr[i] # c.val

C6_BadColumnIsParameterError ==
    (HasTrack /\ Called("sniff_for_header") /\ BadColumn(names, reference_track.col))
        => /\ pc = "error"
           /\ err = "BadParameter"
           /\ ~Called("read_table")
           /\ call = NoCall
           /\ NoOutput

C6_Witness ==
    /\ HasTrack
    /\ Called("sniff_for_header")
    /\ names # NoHeader
    /\ reference_track.col.kind = "str"
    /\ BadColumn(names, reference_track.col)
    /\ err = "BadParameter"

(* C7: an n_eigs that is not positive or exceeds the number of valid bins  *)
(* ends in a configuration error, never in a decomposition result, and no  *)
(* output file is written.                                                 *)
C7_BadNEigsIsConfigError ==
    /\ n_eigs < 1 => (pc # "done" /\ NoOutput)
    /\ (call.called /\ (n_eigs < 1 \/ n_eigs > n_valid))
          => (pc = "error" /\ err = "ConfigError" /\ NoOutput)

C7_Witness ==
    /\ call.called
    /\ n_eigs >= 1
    /\ n_eigs > n_valid
    /\ n_valid > 0
    /\ err = "ConfigError"

(* C8: with a reference track the table handed to the decomposition has    *)
(* exactly the bin table's rows, in order, and one added track column,     *)
(* which is missing (not zero) at every bin without a matching track row.  *)
C8_TrackTableAlignsWithBins ==
    (call.called /\ HasTrack) =>
        /\ call.bins.columns = Append(clr_bins.columns, track_name.val)
        /\ Len(call.bins.rows) = Len(clr_bins.rows)
        /\ \A i \in 1..Len(clr_bins.rows) :
             /\ call.bins.rows[i].chrom = clr_bins.rows[i].chrom
             /\ call.bins.rows[i].start = clr_bins.rows[i].start
             /\ call.bins.rows[i].end = clr_bins.rows[i].end
             /\ (\A k \in 1..Len(track_df) : track_df[k].key # clr_bins.rows[i])
                   => call.bins.rows[i].value = NaN

(* C9: without a reference track the decomposition gets the bin table's    *)
(* rows in the bin table's order with no track column, and the phasing     *)
(* track column is none; it is none exactly when no track was supplied.    *)
C9_NoTrackPassesBinTable ==
    call.called =>
        /\ (call.phasing_track_col = None) <=> ~HasTrack
        /\ ~HasTrack =>
             /\ call.bins.rows = clr_bins.rows
             /\ call.bins.columns = <<"chrom", "start", "end">>
             /\ call.phasing_track_col = None

C9_Witness ==
    /\ call.called
    /\ ~HasTrack
    /\ call.phasing_track_col = None
    /\ Len(call.bins.rows) = NBins

(* C10: a successful invocation writes the eigenvalue table, then the      *)
(* eigenvector table, and then the bigWig file exactly when the flag is    *)
(* set; the bigWig export always takes the column E1.                      *)
IsWrite(c) == c \in {"to_csv_lam", "to_csv_vecs", "to_bigwig"}

C10_OutputFiles ==
    /\ pc = "done" =>
         /\ SelectSeq(calls, IsWrite) =
              (IF bigwig THEN <<"to_csv_lam", "to_csv_vecs", "to_bigwig">>
                         ELSE <<"to_csv_lam", "to_csv_vecs">>)
         /\ files["lam"] = "complete"
         /\ files["vecs"] = "complete"
         /\ files["bw"] = (IF bigwig THEN "complete" ELSE "absent")
    /\ Called("to_bigwig") =>
         /\ bigwig
         /\ files["lam"] = "complete"
         /\ files["vecs"] = "complete"
         /\ bw_value_field = PyStr("E1")

C10_Witness ==
    /\ pc = "done"
    /\ bigwig
    /\ files["bw"] = "complete"
    /\ bw_value_field = PyStr("E1")
====
